---- MODULE Spec2Model ----
(***************************************************************************)
(* TubeChain: the download route, the yt-dlp download chain, the scratch   *)
(* directory housekeeping and the yt-dlp capability provider.              *)
(*                                                                         *)
(* The specifications:                                                     *)
(*   Spec          the download route (POST /api/download) over            *)
(*                 lib/video/downloader.ts (ensureYtDlp with pip), served  *)
(*                 to two concurrent requests over one scratch directory;  *)
(*   SpecChain     one request served over the part_009 downloader, whose  *)
(*                 chain ends with the direct curl download;               *)
(*   SpecProvider  the capability provider (ensureYtDlp /                  *)
(*                 ensureVideoDownloader) called by two concurrent         *)
(*                 requests, one step per awaited external command;        *)
(*   SpecHang      one request, with a yt-dlp process that never exits;    *)
(*   SpecFault     one request, with a scratch directory whose listing     *)
(*                 may fail;                                               *)
(*   SpecUrl       extractVideoId and validateYoutubeUrl of the client     *)
(*                 hook, applied to URLs put together from parts;          *)
(*   SpecThumb     getBestThumbnail, applied to short thumbnail lists;     *)
(*   SpecFile      the two file-retrieval handlers, applied to filenames   *)
(*                 and Range header values;                                *)
(*   SpecSweep     cleanTempDirectory, applied to small directories;       *)
(*   SpecName      generateSafeFilename, applied to short titles;          *)
(*   SpecStatic    ensureYtDlp with the static Linux binary, one step per  *)
(*                 awaited command;                                        *)
(*   SpecHook      the client hook useYoutube: setUrl, handleSubmit,       *)
(*                 downloadVideo, resetForm and their continuations;       *)
(*   SpecHookLive  SpecHook with the fairness its timers give.             *)
(*                                                                         *)
(* File names and titles are sequences of tokens: a token is a word        *)
(* (letters, digits) or one punctuation character.  Node runs each         *)
(* synchronous section of a handler to completion, so one action is one    *)
(* section between two awaits.                                             *)
(***************************************************************************)
EXTENDS Integers, Sequences, FiniteSets, TLC

VARIABLES
    now,        \* Date.now(), in milliseconds
    files,      \* the entries of TEMP_DIR: name, mtime, and who wrote it
    req,        \* per request: position in POST and its locals
    routeV,     \* which route file is deployed: "plain" or "scan"
    impl,       \* which downloader module is deployed
    ytDlpPath,  \* global.ytDlpPath, by kind
    ytdlpInitialized, \* global.ytdlpInitialized (part_009)
    method,     \* global.videoDownloaderMethod (downloader.ts:18)
    prov,       \* provider spec: per caller, position in the provider and locals
    log,        \* provider spec: what the commands run so far have shown
    arg,        \* function specs: the arguments a function or handler is applied to
    ret,        \* function specs: what it returned, "pending" before the call
    hook,       \* client hook: the useState values of useYoutube
    calls,      \* client hook: the handleSubmit and downloadVideo calls made so far
    fsFaults    \* whether fs.readdirSync(TEMP_DIR) may throw

vars == <<now, files, req, routeV, impl, ytDlpPath, ytdlpInitialized,
          method, prov, log, arg, ret, hook, calls, fsFaults>>

provVars == <<method, prov, log>>

hookVars == <<hook, calls>>

pureVars == <<arg, ret, hook, calls>>

\* useState('') ... useState('idle') (hooks/useYoutube.tsx:43-49)
InitHook ==
    [url |-> <<>>, isLoading |-> FALSE, videoInfo |-> "null", fileInfo |-> "null",
     error |-> "", downloadStatus |-> "idle"]

(***************************************************************************)
(* Bounds and program constants                                            *)
(***************************************************************************)
MaxTicks == 1

OneHourMs == 3600000

Reqs == {"r1", "r2"}

StartTime == OneHourMs + 1

(***************************************************************************)
(* Strings as token sequences                                              *)
(***************************************************************************)
\* \w tokens; every other token is one non-word character
NonWord == {" ", ".", "-", "/"}

StartsWith(s, p) ==
    /\ Len(p) <= Len(s)
    /\ SubSeq(s, 1, Len(p)) = p

EndsWith(s, p) ==
    /\ Len(p) <= Len(s)
    /\ SubSeq(s, Len(s) - Len(p) + 1, Len(s)) = p

Includes(s, p) ==
    \E i \in 0..(Len(s) - Len(p)) : SubSeq(s, i + 1, i + Len(p)) = p

\* only the spaces of the title are replaced
ReplaceSpaces(s) ==
    [i \in 1..Len(s) |-> IF s[i] = " " THEN "_" ELSE s[i]]

\* title.replace(/[^\w]/g, '_')
ReplaceNonWord(s) ==
    [i \in 1..Len(s) |-> IF s[i] \in NonWord THEN "_" ELSE s[i]]

RECURSIVE CollapseUnderscores(_)
\* .replace(/_+/g, '_')
CollapseUnderscores(s) ==
    IF Len(s) <= 1 THEN s
    ELSE IF s[1] = "_" /\ s[2] = "_" THEN CollapseUnderscores(Tail(s))
    ELSE <<s[1]>> \o CollapseUnderscores(Tail(s))

safeTitleOf(title) == CollapseUnderscores(ReplaceNonWord(title))

MP4 == <<".", "mp4">>
WEBM == <<".", "webm">>
PART == <<".", "mp4", ".", "part">>
HTML == <<".", "html">>

generateSafeFilename(title, timestamp) ==
    safeTitleOf(title) \o <<"_", ToString(timestamp)>> \o MP4

\* .replace(/\.mp4$/, '')
StripMp4(name) ==
    IF EndsWith(name, MP4) THEN SubSeq(name, 1, Len(name) - 2) ELSE name

infoFilename(timestamp) == <<"video", "_", "info", "_", ToString(timestamp), ".", "json">>

(***************************************************************************)
(* The scratch directory                                                   *)
(***************************************************************************)
Names(fs) == {f.name : f \in fs}

Exists(fs, name) == name \in Names(fs)

FileAt(fs, name) == CHOOSE f \in fs : f.name = name

Unlink(fs, names) == {f \in fs : f.name \notin names}

\* writing a path replaces what was there
WriteFile(fs, name, t, who) ==
    {f \in fs : f.name # name} \cup {[name |-> name, mtime |-> t, by |-> who]}

RECURSIVE WriteAll(_, _, _, _)
WriteAll(fs, names, t, who) ==
    IF names = {} THEN fs
    ELSE LET n == CHOOSE x \in names : TRUE
         IN WriteAll(WriteFile(fs, n, t, who), names \ {n}, t, who)

\* the sweep with the comparison turned inclusive
cleanTempDirectoryInclusive(fs, t) == {f \in fs : ~(f.mtime <= t - OneHourMs)}

\* cleanTempDirectory: files whose mtime is older than one hour go
cleanTempDirectory(fs, t) == {f \in fs : ~(f.mtime < t - OneHourMs)}

\* cleanExtraFiles(baseFilename, targetFilename)
cleanExtraFiles(fs, baseFilename, targetFilename) ==
    {f \in fs : ~(f.name # targetFilename /\ Includes(f.name, baseFilename))}

(***************************************************************************)
(* Inputs: what the outside world can hand the route                       *)
(***************************************************************************)
\* titles yt-dlp may report for a video
Titles == {<<"info">>, <<"video", " ", "info">>}

\* request bodies: no url, or a watch?v= / youtu.be url
UrlKinds == {"missing", "watch"}

\* what an external download leaves under "<base>.%(ext)s" when it exits 0 ...
OkWrites == {{}, {MP4}, {WEBM}, {MP4, PART}}

\* ... and when it fails
FailWrites == {{}, {PART}}

\* url.match(/(?:youtube\.com\/watch\?v=|youtu\.be\/)([^&?]+)/)?.[1]
videoIdOf(url) == IF url = "watch" THEN "ID" ELSE "none"

SyntheticTitle(url) ==
    <<"YouTube", " ", "Video", " ", IF videoIdOf(url) = "none" THEN "unknown" ELSE "ID">>

NoResp == [status |-> 0, kind |-> "none", file |-> <<>>, details |-> "none"]

ErrResp(status, kind, details) ==
    [status |-> status, kind |-> kind, file |-> <<>>, details |-> details]

OkResp(f) ==
    [status |-> 200, kind |-> "ok", file |-> f.name, details |-> "none"]

InitReq ==
    [pc |-> "idle", ts |-> 0, title |-> <<>>, resp |-> NoResp,
     tried |-> {}, lastFailed |-> "none", secondaryOK |-> FALSE, thrown |-> "none"]

\* the expected base name: generateSafeFilename(...) without its .mp4
baseName(q) == StripMp4(generateSafeFilename(q.title, q.ts))

(***************************************************************************)
(* The route: POST /api/download                                           *)
(***************************************************************************)
\* the request ends: the response is sent, nothing else of the handler runs
Finish(r, q, fs, resp) ==
    /\ files' = fs
    /\ req' = [req EXCEPT ![r] = [q EXCEPT !.pc = "done", !.resp = resp]]

\* after downloadVideo returned: locate the file, size it, clean up, answer.
\* cleanExtraFiles does not catch a failure of its readdirSync: it reaches the
\* catch of the route, which answers 500
RouteAfterDownload(r, q, fs) ==
    LET base == baseName(q)
        expected == base \o MP4
        cands == {f \in fs : StartsWith(f.name, base)}
    IN  IF ~Exists(fs, expected) /\ routeV = "plain"
        THEN Finish(r, q, fs, ErrResp(500, "unexpected", "Downloaded file was not found"))
        ELSE IF ~Exists(fs, expected) /\ cands = {}
        THEN Finish(r, q, fs, ErrResp(500, "notfound", "Expected at path"))
        ELSE \E actual \in (IF Exists(fs, expected) THEN {FileAt(fs, expected)} ELSE cands) :
                LET fs1 == Unlink(fs, {infoFilename(q.ts)})
                    fs2 == cleanExtraFiles(fs1, safeTitleOf(q.title), actual.name)
                IN  \/ Finish(r, q, fs2, OkResp(actual))
                    \/ fsFaults /\ Finish(r, q, fs1, ErrResp(500, "unexpected", "readdirSync"))

\* downloadVideo threw: the route's catch answers 500
RouteDownloadFailed(r, q, fs, msg) ==
    Finish(r, [q EXCEPT !.thrown = msg], fs, ErrResp(500, "download", msg))

\* downloader modules: lib/video/downloader.ts with ensureYtDlp over pip, the
\* same file with ensureVideoDownloader and the Node fallback, part_009, part_010
Impls == {"downloader_pip", "downloader_native", "part_009", "part_010"}

\* the download stage q failed in: remembered for the diagnostics
Failed(q, stage) ==
    [q EXCEPT !.tried = @ \cup {stage}, !.lastFailed = stage]

Tried(q, stage) == [q EXCEPT !.tried = @ \cup {stage}]

\* the files one external download of request r leaves, written at time t
Leaves(fs, q, exts, t, who) == WriteAll(fs, {baseName(q) \o e : e \in exts}, t, who)

Tick ==
    /\ now < StartTime + MaxTicks
    /\ now' = now + 1
    /\ UNCHANGED <<files, req, routeV, impl, pureVars, fsFaults, ytDlpPath, ytdlpInitialized, provVars>>

\* POST, up to the await of ensureYtDlp; the age sweep is taken in one step.
\* cleanTempDirectory catches a failure of its readdirSync and removes nothing
Post(r) ==
    /\ req[r].pc = "idle"
    /\ r = "r2" => req["r1"].pc # "idle"
    /\ \E u \in UrlKinds :
         IF u = "missing"
         THEN Finish(r, req[r], files, ErrResp(400, "validation", "URL is required"))
         ELSE /\ \/ files' = cleanTempDirectory(files, now)
                 \/ fsFaults /\ files' = files
              /\ req' = [req EXCEPT ![r] = [@ EXCEPT !.pc = "ensure"]]
    /\ UNCHANGED <<now, routeV, impl, pureVars, fsFaults, ytDlpPath, ytdlpInitialized, provVars>>

\* getVideoInfo is entered: the first awaited command depends on the backend
InfoEntry(kind) ==
    IF impl = "part_009" /\ kind = "node" THEN "infoNode"
    ELSE IF impl = "part_009" /\ kind = "shell" THEN "infoShell"
    ELSE "info1"

\* ensureYtDlp as the route sees it: run to its return value (SpecProvider
\* takes it one command at a time); then the route reads Date.now()
EnsureYtDlp(r) ==
    /\ req[r].pc = "ensure"
    /\ \E out \in {"cached", "preinstalled", "bin", "node", "shell", "failed"} :
         /\ out = "cached" <=> (impl = "part_009" /\ ytdlpInitialized)
         /\ out \in {"bin", "node", "shell"} => impl = "part_009"
         /\ ytDlpPath' = IF out \in {"bin", "node", "shell"} THEN out ELSE ytDlpPath
         /\ ytdlpInitialized' = (ytdlpInitialized \/ (impl = "part_009" /\ out # "failed"))
         /\ IF out = "failed"
            THEN Finish(r, req[r], files, ErrResp(500, "capability", "Failed to install or locate yt-dlp"))
            ELSE /\ req' = [req EXCEPT ![r] = [@ EXCEPT !.ts = now, !.pc = InfoEntry(ytDlpPath')]]
                 /\ files' = files
    /\ UNCHANGED <<now, routeV, impl, pureVars, fsFaults, provVars>>

\* downloadVideo is entered: the first awaited command depends on the backend
DownloadEntry ==
    IF impl = "part_009" /\ ytDlpPath = "node" THEN "dlNode"
    ELSE IF impl = "part_009" /\ ytDlpPath = "shell" THEN "dlShell"
    ELSE "primary"

\* getVideoInfo returned info: the route checks the title and starts the download
RouteAfterInfo(r, q, fs) ==
    IF q.title = <<>>
    THEN Finish(r, q, fs, ErrResp(404, "notitle", "Valid video information could not be retrieved"))
    ELSE /\ files' = fs
         /\ req' = [req EXCEPT ![r] = [q EXCEPT !.pc = DownloadEntry]]

InfoWho(r) == <<r, "info">>

\* part_009: the generated node script answers getVideoInfo
InfoNodeDone(r) ==
    /\ req[r].pc = "infoNode"
    /\ \/ \E t \in Titles :
            RouteAfterInfo(r, [req[r] EXCEPT !.title = t],
                           WriteFile(files, infoFilename(req[r].ts), now, InfoWho(r)))
       \/ /\ req' = [req EXCEPT ![r] = [@ EXCEPT !.pc = "info1"]]
          /\ files' = files
    /\ UNCHANGED <<now, routeV, impl, pureVars, fsFaults, ytDlpPath, ytdlpInitialized, provVars>>

\* part_009: the generated shell script answers getVideoInfo
InfoShellDone(r) ==
    /\ req[r].pc = "infoShell"
    /\ \/ \E t \in Titles \cup {<<>>} :
            RouteAfterInfo(r, [req[r] EXCEPT !.title = t],
                           WriteFile(files, infoFilename(req[r].ts), now, InfoWho(r)))
       \/ RouteAfterInfo(r, [req[r] EXCEPT !.title = SyntheticTitle("watch")],
                         WriteFile(files, infoFilename(req[r].ts), now, InfoWho(r)))
    /\ UNCHANGED <<now, routeV, impl, pureVars, fsFaults, ytDlpPath, ytdlpInitialized, provVars>>

\* yt-dlp --dump-json > infoPath
Info1Done(r) ==
    /\ req[r].pc = "info1"
    /\ LET fs == WriteFile(files, infoFilename(req[r].ts), now, InfoWho(r))
       IN  \/ \E t \in Titles \cup {<<>>} : RouteAfterInfo(r, [req[r] EXCEPT !.title = t], fs)
           \/ /\ req' = [req EXCEPT ![r] = [@ EXCEPT !.pc = "info2"]]
              /\ files' = fs
    /\ UNCHANGED <<now, routeV, impl, pureVars, fsFaults, ytDlpPath, ytdlpInitialized, provVars>>

\* yt-dlp --print title ... > infoPath.txt
Info2Done(r) ==
    /\ req[r].pc = "info2"
    /\ LET txt == WriteFile(files, infoFilename(req[r].ts) \o <<".", "txt">>, now, InfoWho(r))
           both == WriteFile(txt, infoFilename(req[r].ts), now, InfoWho(r))
       IN  \/ \E t \in Titles : RouteAfterInfo(r, [req[r] EXCEPT !.title = t], both)
           \/ IF impl = "part_009"
              THEN RouteAfterInfo(r, [req[r] EXCEPT !.title = SyntheticTitle("watch")], both)
              ELSE Finish(r, req[r], txt, ErrResp(500, "metadata", "Could not retrieve video metadata"))
    /\ UNCHANGED <<now, routeV, impl, pureVars, fsFaults, ytDlpPath, ytdlpInitialized, provVars>>

(***************************************************************************)
(* downloadVideo and tryFallbackDownload                                   *)
(***************************************************************************)
Who(r, stage) == <<r, stage>>

\* yt-dlp -f "bestvideo+bestaudio/best" --merge-output-format mp4
PrimaryDone(r) ==
    /\ req[r].pc = "primary"
    /\ \/ \E w \in OkWrites :
            /\ files' = Leaves(files, req[r], w, now, Who(r, "primary"))
            /\ req' = [req EXCEPT ![r] = [Tried(@, "primary") EXCEPT !.pc = "delay"]]
       \/ \E w \in FailWrites :
            /\ files' = Leaves(files, req[r], w, now, Who(r, "primary"))
            /\ req' = [req EXCEPT ![r] = [Failed(@, "primary") EXCEPT !.pc = "fb1"]]
    /\ UNCHANGED <<now, routeV, impl, pureVars, fsFaults, ytDlpPath, ytdlpInitialized, provVars>>

\* the one-second delay after the primary download is over
DelayDone(r) ==
    /\ req[r].pc = "delay"
    /\ RouteAfterDownload(r, req[r], files)
    /\ UNCHANGED <<now, routeV, impl, pureVars, fsFaults, ytDlpPath, ytdlpInitialized, provVars>>

\* catch (fallbackError): rethrow, or (part_009) go on to the direct curl download
FallbackFailed(r, q, fs, stage) ==
    IF impl = "part_009"
    THEN \/ RouteDownloadFailed(r, Failed(q, "curl"), fs, stage)
         \/ /\ files' = fs
            /\ req' = [req EXCEPT ![r] = [q EXCEPT !.pc = "curlPage", !.thrown = stage]]
    ELSE RouteDownloadFailed(r, q, fs, stage)

\* yt-dlp -f "best"
Fb1Done(r) ==
    /\ req[r].pc = "fb1"
    /\ \/ \E w \in OkWrites :
            LET fs == Leaves(files, req[r], w, now, Who(r, "fb1"))
                q == [Tried(req[r], "fb1") EXCEPT !.secondaryOK = (w # {})]
            IN  IF \E f \in fs : StartsWith(f.name, baseName(q))
                THEN RouteAfterDownload(r, q, fs)
                ELSE /\ files' = fs
                     /\ req' = [req EXCEPT ![r] = [q EXCEPT !.pc = "fb2"]]
       \/ \E w \in FailWrites :
            FallbackFailed(r, Failed(req[r], "fb1"),
                           Leaves(files, req[r], w, now, Who(r, "fb1")), "fb1")
    /\ UNCHANGED <<now, routeV, impl, pureVars, fsFaults, ytDlpPath, ytdlpInitialized, provVars>>

\* yt-dlp -f "bestvideo+bestaudio" --audio-format mp3 --prefer-ffmpeg
Fb2Done(r) ==
    /\ req[r].pc = "fb2"
    /\ \/ \E w \in OkWrites :
            RouteAfterDownload(r, [Tried(req[r], "fb2") EXCEPT !.secondaryOK = (w # {})],
                               Leaves(files, req[r], w, now, Who(r, "fb2")))
       \/ \E w \in FailWrites :
            FallbackFailed(r, Failed(req[r], "fb2"),
                           Leaves(files, req[r], w, now, Who(r, "fb2")), "fb2")
    /\ UNCHANGED <<now, routeV, impl, pureVars, fsFaults, ytDlpPath, ytdlpInitialized, provVars>>

\* part_009: curl -s the watch page into <base>.html, look for direct urls
CurlPageDone(r) ==
    /\ req[r].pc = "curlPage"
    /\ LET html == baseName(req[r]) \o HTML
           fs == WriteFile(files, html, now, Who(r, "curl"))
       IN  \/ \* curl failed: nothing certain on disk
              RouteDownloadFailed(r, Failed(req[r], "curl"), files, req[r].thrown)
           \/ \* the page holds no videoplayback url: unlink, throw
              RouteDownloadFailed(r, Failed(req[r], "curl"), Unlink(fs, {html}), req[r].thrown)
           \/ /\ files' = fs
              /\ req' = [req EXCEPT ![r] = [@ EXCEPT !.pc = "curlVideo"]]
    /\ UNCHANGED <<now, routeV, impl, pureVars, fsFaults, ytDlpPath, ytdlpInitialized, provVars>>

\* part_009: curl -L the first direct url into <base>.mp4
CurlVideoDone(r) ==
    /\ req[r].pc = "curlVideo"
    /\ LET html == baseName(req[r]) \o HTML
       IN  \/ RouteAfterDownload(r, Tried(req[r], "curl"),
                   Unlink(Leaves(files, req[r], {MP4}, now, Who(r, "curl")), {html}))
           \/ \E w \in FailWrites :
                RouteDownloadFailed(r, Failed(req[r], "curl"),
                    Leaves(files, req[r], w, now, Who(r, "curl")), req[r].thrown)
    /\ UNCHANGED <<now, routeV, impl, pureVars, fsFaults, ytDlpPath, ytdlpInitialized, provVars>>

\* part_009: the generated node script downloads; a failure falls through to yt-dlp
NodeDownloadDone(r) ==
    /\ req[r].pc = "dlNode"
    /\ \/ RouteAfterDownload(r, Tried(req[r], "node"),
               Leaves(files, req[r], {MP4}, now, Who(r, "node")))
       \/ /\ files' = Leaves(files, req[r], {MP4 \o HTML}, now, Who(r, "node"))
          /\ req' = [req EXCEPT ![r] = [Failed(@, "node") EXCEPT !.pc = "primary"]]
    /\ UNCHANGED <<now, routeV, impl, pureVars, fsFaults, ytDlpPath, ytdlpInitialized, provVars>>

\* part_009: the generated shell script downloads; its failure is rethrown
ShellDownloadDone(r) ==
    /\ req[r].pc = "dlShell"
    /\ \/ RouteAfterDownload(r, Tried(req[r], "shell"),
               Leaves(files, req[r], {MP4}, now, Who(r, "shell")))
       \/ RouteDownloadFailed(r, Failed(req[r], "shell"),
               Leaves(files, req[r], {MP4 \o HTML}, now, Who(r, "shell")), "shell")
    /\ UNCHANGED <<now, routeV, impl, pureVars, fsFaults, ytDlpPath, ytdlpInitialized, provVars>>

(***************************************************************************)
(* Spec: the download route over lib/video/downloader.ts, two requests     *)
(***************************************************************************)
\* a stale file and a ten-minute-old file wait in the scratch directory
InitFiles ==
    {[name |-> <<"old", ".", "mp4">>, mtime |-> 0, by |-> <<"r0", "primary">>],
     [name |-> <<"keep", ".", "mp4">>, mtime |-> StartTime - 600000, by |-> <<"r0", "primary">>]}

\* checked: the command forms that passed a version check: the bare name
\* "yt-dlp", the path of the binary, "python -m yt_dlp"
InitLog ==
    [probeDone |-> FALSE, readyDone |-> FALSE, verified |-> {}, established |-> {},
     checked |-> {}]

InitProvIdle ==
    /\ method = "undefined"
    /\ prov = [r \in Reqs |-> [pc |-> "off"]]
    /\ log = InitLog
    /\ arg = "none"
    /\ ret = "none"
    /\ hook = InitHook
    /\ calls = <<>>
    /\ fsFaults = FALSE

Init ==
    /\ now = StartTime
    /\ files = InitFiles
    /\ req = [r \in Reqs |-> InitReq]
    /\ routeV \in {"plain", "scan"}
    /\ impl = "downloader_pip"
    /\ ytDlpPath = "undefined"
    /\ ytdlpInitialized = FALSE
    /\ InitProvIdle

Next ==
    \/ Tick
    \/ \E r \in Reqs : Post(r)
    \/ \E r \in Reqs : EnsureYtDlp(r)
    \/ \E r \in Reqs : Info1Done(r)
    \/ \E r \in Reqs : Info2Done(r)
    \/ \E r \in Reqs : PrimaryDone(r)
    \/ \E r \in Reqs : DelayDone(r)
    \/ \E r \in Reqs : Fb1Done(r)
    \/ \E r \in Reqs : Fb2Done(r)

Spec == Init /\ [][Next]_vars

(***************************************************************************)
(* SpecChain: one request served over the part_009 downloader              *)
(***************************************************************************)
InitChain ==
    /\ now = StartTime
    /\ files = InitFiles
    /\ req = [r \in Reqs |-> IF r = "r1" THEN InitReq ELSE [InitReq EXCEPT !.pc = "off"]]
    /\ routeV \in {"plain", "scan"}
    /\ impl = "part_009"
    /\ ytDlpPath = "undefined"
    /\ ytdlpInitialized = FALSE
    /\ InitProvIdle

NextChain ==
    \/ Next
    \/ InfoNodeDone("r1")
    \/ InfoShellDone("r1")
    \/ CurlPageDone("r1")
    \/ CurlVideoDone("r1")
    \/ NodeDownloadDone("r1")
    \/ ShellDownloadDone("r1")

SpecChain == InitChain /\ [][NextChain]_vars

(***************************************************************************)
(* The capability provider, one action per awaited command                 *)
(***************************************************************************)
\* the binaries each variant tries in turn, and the python commands
architectures ==
    IF impl = "part_009" THEN <<"arch", "x86_64", "aarch64", "armv7">>
    ELSE IF impl = "downloader_native" THEN <<"x86_64", "aarch64", "">>
    ELSE <<"linux">>

pythonCmds == <<"python3", "python", "python2">>

\* the backend family a later command uses, by what the globals hold
BackendInUse ==
    IF impl = "downloader_native" THEN method
    ELSE IF ytDlpPath \in {"node", "shell"} THEN ytDlpPath
    ELSE "ytdlp"

InitCall ==
    [pc |-> "idle", i |-> 0, ran |-> {}, result |-> "none", reported |-> "none",
     resp |-> "none", early |-> FALSE, afterReady |-> FALSE]

\* the provider returns to the route, which answers 500 or calls getVideoInfo
Return(c, p, ok, lg) ==
    /\ log' = [lg EXCEPT !.readyDone = @ \/ ok]
    /\ prov' = [prov EXCEPT ![c] =
         IF ok
         THEN [p EXCEPT !.pc = "info", !.result = "true", !.reported = BackendInUse',
                        !.ran = @ \cup {"backend"}]
         ELSE [p EXCEPT !.pc = "done", !.result = "false", !.resp = "capability"]]

\* a verification invocation of the command forms cmds passed
Verified(lg, cmds) ==
    [lg EXCEPT !.verified = @ \cup {"ytdlp"}, !.established = @ \cup {"ytdlp"},
               !.checked = @ \cup cmds]

\* the command getVideoInfo and downloadVideo run for the yt-dlp backend:
\* "${global.ytDlpPath}" where the module keeps one, the bare name otherwise
CommandRun ==
    IF impl # "downloader_native" /\ ytDlpPath = "bin" THEN "path" ELSE "yt-dlp"

\* ensureYtDlp() / ensureVideoDownloader() is called
ProvCall(c) ==
    /\ prov[c].pc = "idle"
    /\ c = "r2" => prov["r1"].pc # "idle"
    /\ UNCHANGED <<now, files, req, routeV, impl, pureVars, fsFaults, ytDlpPath, ytdlpInitialized, method>>
    /\ LET p == [prov[c] EXCEPT !.early = ~log.probeDone, !.afterReady = log.readyDone]
       IN  IF impl = "part_009" /\ ytdlpInitialized
           THEN Return(c, p, TRUE, log)
           ELSE /\ prov' = [prov EXCEPT ![c] = [p EXCEPT !.pc = "probe", !.ran = {"probe"}]]
                /\ log' = log

\* every yt-dlp strategy of ensureVideoDownloader failed: the Node fallback
NativeFallback(c, p, lg) ==
    /\ method' = "node"
    /\ UNCHANGED <<ytDlpPath, ytdlpInitialized>>
    /\ Return(c, p, TRUE, lg)

GiveUp(c, p, lg) ==
    /\ UNCHANGED <<ytDlpPath, ytdlpInitialized, method>>
    /\ Return(c, p, FALSE, lg)

\* go on inside the provider: the next command is awaited
Await(c, p, pc, lg) ==
    /\ prov' = [prov EXCEPT ![c] = [p EXCEPT !.pc = pc]]
    /\ log' = lg
    /\ UNCHANGED <<ytDlpPath, ytdlpInitialized, method>>

\* yt-dlp --version
ProbeDone(c) ==
    /\ prov[c].pc = "probe"
    /\ UNCHANGED <<now, files, req, routeV, impl, pureVars, fsFaults>>
    /\ LET lg == [log EXCEPT !.probeDone = TRUE]
           p == [prov[c] EXCEPT !.i = 1, !.ran = @ \cup {"provision"}]
       IN  \/ /\ ytdlpInitialized' = (ytdlpInitialized \/ impl = "part_009")
              /\ method' = IF impl = "downloader_native" THEN "ytdlp" ELSE method
              /\ UNCHANGED ytDlpPath
              /\ Return(c, prov[c], TRUE, Verified(lg, {"yt-dlp"}))
           \/ \* the probe failed and the bin directory cannot be made
              /\ impl \in {"part_010", "downloader_native"}
              /\ IF impl = "part_010" THEN GiveUp(c, prov[c], lg)
                 ELSE NativeFallback(c, prov[c], lg)
           \/ /\ impl = "downloader_pip"
              /\ Await(c, [p EXCEPT !.i = 0], "pip", lg)
           \/ /\ impl = "part_009"
              /\ Await(c, [prov[c] EXCEPT !.i = 1], "cpuinfo", lg)
           \/ /\ impl \in {"part_010", "downloader_native"}
              /\ Await(c, p, "curl", lg)

\* part_009 detectArchitecture: cat /proc/cpuinfo
CpuinfoDone(c) ==
    /\ prov[c].pc = "cpuinfo"
    /\ UNCHANGED <<now, files, req, routeV, impl, pureVars, fsFaults>>
    /\ \/ Await(c, [prov[c] EXCEPT !.ran = @ \cup {"provision"}], "curl", log)
       \/ Await(c, prov[c], "uname", log)

\* part_009 detectArchitecture: uname -m; a failure defaults to x86_64
UnameDone(c) ==
    /\ prov[c].pc = "uname"
    /\ UNCHANGED <<now, files, req, routeV, impl, pureVars, fsFaults>>
    /\ Await(c, [prov[c] EXCEPT !.ran = @ \cup {"provision"}], "curl", log)

\* python3, python, python2 in turn; after the last one the Node fallback
NextPython(c, p, lg) ==
    IF p.i < Len(pythonCmds)
    THEN Await(c, [p EXCEPT !.i = @ + 1], "pyVersion", lg)
    ELSE NativeFallback(c, p, lg)

\* this binary did not work: the next one, or what the variant does after the last
NextBinary(c, p, lg) ==
    IF p.i < Len(architectures)
    THEN Await(c, [p EXCEPT !.i = @ + 1], "curl", lg)
    ELSE IF impl = "part_010" THEN GiveUp(c, p, lg)
    ELSE IF impl = "downloader_native" THEN Await(c, [p EXCEPT !.i = 1], "pyVersion", lg)
    ELSE \/ \* createNodeBasedDownloader wrote its script
            /\ ytDlpPath' = "node"
            /\ ytdlpInitialized' = TRUE
            /\ UNCHANGED method
            /\ Return(c, p, TRUE, [lg EXCEPT !.established = @ \cup {"node"}])
         \/ \* neither script could be written
            GiveUp(c, p, lg)
         \/ \* the shell script is written: chmod +x
            Await(c, p, "shChmod", lg)

\* curl -L <binary url> -o <ytDlpPath>
CurlDone(c) ==
    /\ prov[c].pc = "curl"
    /\ UNCHANGED <<now, files, req, routeV, impl, pureVars, fsFaults>>
    /\ \/ Await(c, prov[c], "chmod", log)
       \/ NextBinary(c, prov[c], log)

\* chmod +x <ytDlpPath>
ChmodDone(c) ==
    /\ prov[c].pc = "chmod"
    /\ UNCHANGED <<now, files, req, routeV, impl, pureVars, fsFaults>>
    /\ \/ Await(c, prov[c], "verify", log)
       \/ NextBinary(c, prov[c], log)

\* "<ytDlpPath>" --version
VerifyDone(c) ==
    /\ prov[c].pc = "verify"
    /\ UNCHANGED <<now, files, req, routeV, impl, pureVars, fsFaults>>
    /\ \/ /\ ytDlpPath' = IF impl = "downloader_native" THEN ytDlpPath ELSE "bin"
          /\ ytdlpInitialized' = (ytdlpInitialized \/ impl = "part_009")
          /\ method' = IF impl = "downloader_native" THEN "ytdlp" ELSE method
          \* binDir was put first on the PATH before the check, but for part_009
          /\ Return(c, prov[c], TRUE,
                    Verified(log, IF impl = "part_009" THEN {"path"} ELSE {"path", "yt-dlp"}))
       \/ NextBinary(c, prov[c], log)

\* part_009: chmod +x of the shell script wrapper
ShChmodDone(c) ==
    /\ prov[c].pc = "shChmod"
    /\ UNCHANGED <<now, files, req, routeV, impl, pureVars, fsFaults>>
    /\ \/ /\ ytDlpPath' = "shell"
          /\ ytdlpInitialized' = TRUE
          /\ UNCHANGED method
          /\ Return(c, prov[c], TRUE, [log EXCEPT !.established = @ \cup {"shell"}])
       \/ GiveUp(c, prov[c], log)

\* <pythonCmd> --version
PyVersionDone(c) ==
    /\ prov[c].pc = "pyVersion"
    /\ UNCHANGED <<now, files, req, routeV, impl, pureVars, fsFaults>>
    /\ \/ Await(c, prov[c], "pyInstall", log)
       \/ NextPython(c, prov[c], log)

\* <pythonCmd> -m pip install --user yt-dlp
PyInstallDone(c) ==
    /\ prov[c].pc = "pyInstall"
    /\ UNCHANGED <<now, files, req, routeV, impl, pureVars, fsFaults>>
    /\ \/ Await(c, prov[c], "pyVerify", log)
       \/ NextPython(c, prov[c], log)

\* <pythonCmd> -m yt_dlp --version
PyVerifyDone(c) ==
    /\ prov[c].pc = "pyVerify"
    /\ UNCHANGED <<now, files, req, routeV, impl, pureVars, fsFaults>>
    /\ \/ /\ method' = "ytdlp"
          /\ UNCHANGED <<ytDlpPath, ytdlpInitialized>>
          /\ Return(c, prov[c], TRUE, Verified(log, {"python -m yt_dlp"}))
       \/ NextPython(c, prov[c], log)

\* downloader.ts ensureYtDlp: pip install yt-dlp
PipDone(c) ==
    /\ prov[c].pc = "pip"
    /\ UNCHANGED <<now, files, req, routeV, impl, pureVars, fsFaults>>
    /\ \/ Await(c, prov[c], "pipVerify", log)
       \/ GiveUp(c, prov[c], log)

\* downloader.ts ensureYtDlp: the final yt-dlp --version
PipVerifyDone(c) ==
    /\ prov[c].pc = "pipVerify"
    /\ UNCHANGED <<now, files, req, routeV, impl, pureVars, fsFaults>>
    /\ \/ /\ UNCHANGED <<ytDlpPath, ytdlpInitialized, method>>
          /\ Return(c, prov[c], TRUE, Verified(log, {"yt-dlp"}))
       \/ GiveUp(c, prov[c], log)

\* the route's getVideoInfo ran its backend command
ProvInfoDone(c) ==
    /\ prov[c].pc = "info"
    /\ prov' = [prov EXCEPT ![c] = [@ EXCEPT !.pc = "done", !.resp = "ok"]]
    /\ UNCHANGED <<now, files, req, routeV, impl, pureVars, fsFaults, ytDlpPath, ytdlpInitialized, method, log>>

(***************************************************************************)
(* SpecProvider: two requests call the provider                            *)
(***************************************************************************)
InitProvider ==
    /\ now = StartTime
    /\ files = InitFiles
    /\ req = [r \in Reqs |-> [InitReq EXCEPT !.pc = "off"]]
    /\ routeV = "plain"
    /\ impl \in Impls
    /\ ytDlpPath = "undefined"
    /\ ytdlpInitialized = FALSE
    /\ method = "undefined"
    /\ prov = [c \in Reqs |-> InitCall]
    /\ log = InitLog
    /\ arg = "none"
    /\ ret = "none"
    /\ hook = InitHook
    /\ calls = <<>>
    /\ fsFaults = FALSE

NextProvider ==
    \/ \E c \in Reqs : ProvCall(c)
    \/ \E c \in Reqs : ProbeDone(c)
    \/ \E c \in Reqs : CpuinfoDone(c)
    \/ \E c \in Reqs : UnameDone(c)
    \/ \E c \in Reqs : CurlDone(c)
    \/ \E c \in Reqs : ChmodDone(c)
    \/ \E c \in Reqs : VerifyDone(c)
    \/ \E c \in Reqs : ShChmodDone(c)
    \/ \E c \in Reqs : PyVersionDone(c)
    \/ \E c \in Reqs : PyInstallDone(c)
    \/ \E c \in Reqs : PyVerifyDone(c)
    \/ \E c \in Reqs : PipDone(c)
    \/ \E c \in Reqs : PipVerifyDone(c)
    \/ \E c \in Reqs : ProvInfoDone(c)

SpecProvider == InitProvider /\ [][NextProvider]_vars

(***************************************************************************)
(* The client hook's URL functions (hooks/useYoutube.tsx)                  *)
(*                                                                         *)
(* Here a string is a sequence of characters, and a regular expression is  *)
(* matched the way String.prototype.match does: the leftmost start, each   *)
(* optional group and each + taken greedily.                               *)
(***************************************************************************)
Http == <<"h", "t", "t", "p">>

ColonSlashSlash == <<":", "/", "/">>

WwwDot == <<"w", "w", "w", ".">>

WatchLit == <<"y", "o", "u", "t", "u", "b", "e", ".", "c", "o", "m", "/", "w", "a", "t", "c", "h", "?", "v", "=">>

YoutuBeLit == <<"y", "o", "u", "t", "u", ".", "b", "e", "/">>

EmbedLit == <<"y", "o", "u", "t", "u", "b", "e", ".", "c", "o", "m", "/", "e", "m", "b", "e", "d", "/">>

VLit == <<"y", "o", "u", "t", "u", "b", "e", ".", "c", "o", "m", "/", "v", "/">>

ShortsLit == <<"y", "o", "u", "t", "u", "b", "e", ".", "c", "o", "m", "/", "s", "h", "o", "r", "t", "s", "/">>

LiveLit == <<"y", "o", "u", "t", "u", "b", "e", ".", "c", "o", "m", "/", "l", "i", "v", "e", "/">>

YoutubeCom == <<"y", "o", "u", "t", "u", "b", "e", ".", "c", "o", "m">>

YoutuBe == <<"y", "o", "u", "t", "u", ".", "b", "e">>

UpperCase == <<"A", "B", "C", "D", "E", "F", "G", "H", "I", "J", "K", "L", "M",
               "N", "O", "P", "Q", "R", "S", "T", "U", "V", "W", "X", "Y", "Z">>

LowerCase == <<"a", "b", "c", "d", "e", "f", "g", "h", "i", "j", "k", "l", "m",
               "n", "o", "p", "q", "r", "s", "t", "u", "v", "w", "x", "y", "z">>

\* the /i flag: a character of the input is compared in lower case
Lower(c) ==
    IF \E k \in 1..Len(UpperCase) : UpperCase[k] = c
    THEN LowerCase[CHOOSE k \in 1..Len(UpperCase) : UpperCase[k] = c]
    ELSE c

\* the literal lit stands in s at position i, case-insensitively
LitAt(s, i, lit) ==
    /\ i + Len(lit) - 1 <= Len(s)
    /\ \A k \in 1..Len(lit) : Lower(s[i + k - 1]) = lit[k]

\* the position after (?:https?:\/\/)? tried at i: with the group, then without
AfterScheme(s, i) ==
    IF LitAt(s, i, Http \o <<"s">> \o ColonSlashSlash) THEN <<i + 8, i>>
    ELSE IF LitAt(s, i, Http \o ColonSlashSlash) THEN <<i + 7, i>>
    ELSE <<i>>

\* the positions after (?:www\.)? tried at i: with the group, then without
AfterWww(s, i) ==
    IF LitAt(s, i, WwwDot) THEN <<i + 4, i>> ELSE <<i>>

\* the positions at which the literal of a pattern may start for a match
\* that starts at i, in the order the matcher tries them
LitStarts(s, i) ==
    LET a == AfterScheme(s, i)
        w1 == AfterWww(s, a[1])
    IN  IF Len(a) = 1 THEN w1 ELSE w1 \o AfterWww(s, a[2])

\* ([^...]+) at position i: the longest run of characters outside stop
RECURSIVE Run(_, _, _)
Run(s, i, stop) ==
    IF i > Len(s) \/ s[i] \in stop THEN <<>>
    ELSE <<s[i]>> \o Run(s, i + 1, stop)

\* the capture of a match of the pattern that starts at i, <<>> for no match
CaptureAt(s, i, pat) ==
    LET starts == LitStarts(s, i)
        good == {k \in 1..Len(starts) :
                    /\ LitAt(s, starts[k], pat.lit)
                    /\ Run(s, starts[k] + Len(pat.lit), pat.stop) # <<>>}
    IN  IF good = {} THEN <<>>
        ELSE LET k == CHOOSE k \in good : \A m \in good : k <= m
             IN  Run(s, starts[k] + Len(pat.lit), pat.stop)

\* null, and the falsy empty string of "match && match[1]"
null == <<>>

\* url.match(pattern): match[1] of the leftmost match, null for no match
Match1(s, pat) ==
    LET at == {i \in 1..Len(s) : CaptureAt(s, i, pat) # <<>>}
    IN  IF at = {} THEN null
        ELSE CaptureAt(s, CHOOSE i \in at : \A j \in at : i <= j, pat)

patterns ==
    <<[lit |-> WatchLit,   stop |-> {"&"}],
      [lit |-> YoutuBeLit, stop |-> {"?"}],
      [lit |-> EmbedLit,   stop |-> {"?"}],
      [lit |-> VLit,       stop |-> {"?"}],
      [lit |-> ShortsLit,  stop |-> {"?", "&"}],
      [lit |-> LiveLit,    stop |-> {"?", "&"}]>>

\* the first pattern that matches decides
extractVideoId(url) ==
    LET hit == {k \in 1..Len(patterns) : Match1(url, patterns[k]) # null}
    IN  IF hit = {} THEN null
        ELSE Match1(url, patterns[CHOOSE k \in hit : \A m \in hit : k <= m])

WhiteSpace == {" "}

RECURSIVE TrimStart(_)
TrimStart(s) ==
    IF s # <<>> /\ s[1] \in WhiteSpace THEN TrimStart(Tail(s)) ELSE s

RECURSIVE TrimEnd(_)
TrimEnd(s) ==
    IF s # <<>> /\ s[Len(s)] \in WhiteSpace THEN TrimEnd(SubSeq(s, 1, Len(s) - 1)) ELSE s

Trim(s) == TrimEnd(TrimStart(s))

validateYoutubeUrl(url) ==
    IF Trim(url) = <<>>
    THEN [valid |-> FALSE, message |-> "Please enter a YouTube URL"]
    ELSE IF ~Includes(url, YoutubeCom) /\ ~Includes(url, YoutuBe)
    THEN [valid |-> FALSE, message |-> "This does not appear to be a YouTube URL"]
    ELSE IF extractVideoId(url) = null
    THEN [valid |-> FALSE, message |-> "Could not extract video ID from URL"]
    ELSE [valid |-> TRUE, message |-> "undefined"]

\* the inputs: a URL is put together from a wrapper (the URL of another site
\* in whose query or path the rest stands), a scheme, www., a host and path,
\* an identifier and a suffix
VideoIdChars == <<"d", "Q", "w", "4", "w", "9", "W", "g", "X", "c", "Q">>

Wrappers ==
    [none  |-> <<>>,
     query |-> <<"h", "t", "t", "p", "s", ":", "/", "/", "e", "v", "i", "l", ".", "e", "x", "a", "m", "p", "l", "e", "/", "?", "u", "=">>,
     path  |-> <<"h", "t", "t", "p", "s", ":", "/", "/", "e", "v", "i", "l", ".", "e", "x", "a", "m", "p", "l", "e", "/">>]

Schemes == {<<>>, Http \o <<"s">> \o ColonSlashSlash}

Wwws == {<<>>, WwwDot}

Shapes ==
    [watch   |-> WatchLit,
     short   |-> YoutuBeLit,
     embed   |-> EmbedLit,
     v       |-> VLit,
     shorts  |-> ShortsLit,
     live    |-> LiveLit,
     watch2  |-> <<"y", "o", "u", "t", "u", "b", "e", ".", "c", "o", "m", "/", "w", "a", "t", "c", "h", "?", "f", "e", "a", "t", "u", "r", "e", "=", "s", "h", "a", "r", "e", "&", "v", "=">>,
     channel |-> <<"y", "o", "u", "t", "u", "b", "e", ".", "c", "o", "m", "/", "c", "h", "a", "n", "n", "e", "l", "/">>,
     other   |-> <<"v", "i", "m", "e", "o", ".", "c", "o", "m", "/">>,
     blank   |-> <<" ">>,
     upper   |-> <<"Y", "o", "u", "T", "u", "b", "e", ".", "c", "o", "m", "/", "w", "a", "t", "c", "h", "?", "v", "=">>]

Suffixes ==
    [none  |-> <<>>,
     amp   |-> <<"&", "t", "=", "1", "0">>,
     query |-> <<"?", "t", "=", "1", "0">>,
     path  |-> <<"/", "e", "x", "t", "r", "a">>,
     slash |-> <<"/">>]

UrlInputs ==
    {[url |-> Wrappers[w] \o sc \o ww \o Shapes[sh] \o id \o Suffixes[su],
      wrapper |-> w, shape |-> sh, id |-> id, suffix |-> su] :
        w \in DOMAIN Wrappers, sc \in Schemes, ww \in Wwws,
        sh \in DOMAIN Shapes, id \in {<<>>, VideoIdChars}, su \in DOMAIN Suffixes}

\* no function applied yet
Pending == [fn |-> "pending"]

InitUrl ==
    /\ now = StartTime
    /\ files = InitFiles
    /\ req = [r \in Reqs |-> [InitReq EXCEPT !.pc = "off"]]
    /\ routeV = "plain"
    /\ impl = "downloader_pip"
    /\ ytDlpPath = "undefined"
    /\ ytdlpInitialized = FALSE
    /\ method = "undefined"
    /\ prov = [r \in Reqs |-> [pc |-> "off"]]
    /\ log = InitLog
    /\ arg \in UrlInputs
    /\ ret = Pending
    /\ hook = InitHook
    /\ calls = <<>>
    /\ fsFaults = FALSE

ExtractVideoId ==
    /\ ret.fn = "pending"
    /\ ret' = [fn |-> "extractVideoId", value |-> extractVideoId(arg.url)]
    /\ UNCHANGED <<now, files, req, routeV, impl, ytDlpPath, ytdlpInitialized, provVars, arg, fsFaults, hookVars>>

ValidateYoutubeUrl ==
    /\ ret.fn = "pending"
    /\ ret' = [fn |-> "validateYoutubeUrl", value |-> validateYoutubeUrl(arg.url)]
    /\ UNCHANGED <<now, files, req, routeV, impl, ytDlpPath, ytdlpInitialized, provVars, arg, fsFaults, hookVars>>

NextUrl ==
    \/ ExtractVideoId
    \/ ValidateYoutubeUrl

SpecUrl == InitUrl /\ [][NextUrl]_vars

(***************************************************************************)
(* getBestThumbnail (part_011)                                             *)
(***************************************************************************)
MaxThumbs == 3

\* the widths and heights a thumbnail entry may carry
Sizes == {1, 2}

\* the size fields of an entry; a field may be missing
ThumbSizes ==
    {<<>>} \cup {[width |-> w] : w \in Sizes} \cup {[height |-> h] : h \in Sizes}
           \cup {[width |-> w, height |-> h] : w \in Sizes, h \in Sizes}

\* the entry at position i has a URL of its own
ThumbUrl(i) == <<"thumb", ToString(i)>>

Thumb(d, i) ==
    [k \in DOMAIN d \cup {"url"} |-> IF k = "url" THEN ThumbUrl(i) ELSE d[k]]

ThumbLists ==
    UNION {{[i \in 1..n |-> Thumb(d[i], i)] : d \in [1..n -> ThumbSizes]} : n \in 0..MaxThumbs}

\* (a.width || 0) * (a.height || 0)
Resolution(a) ==
    (IF "width" \in DOMAIN a THEN a.width ELSE 0)
        * (IF "height" \in DOMAIN a THEN a.height ELSE 0)

\* the comparator forgets "descending"
compareAscending(a, b) == Resolution(a) - Resolution(b)

\* the comparator of the sort: bRes - aRes
compareThumbnails(a, b) == Resolution(b) - Resolution(a)

\* Array.prototype.sort is stable: an element goes after every element the
\* comparator does not order after it
RECURSIVE InsertSorted(_, _)
InsertSorted(sorted, x) ==
    IF sorted = <<>> THEN <<x>>
    ELSE IF compareThumbnails(sorted[1], x) <= 0
    THEN <<sorted[1]>> \o InsertSorted(Tail(sorted), x)
    ELSE <<x>> \o sorted

RECURSIVE sortedThumbnails(_)
sortedThumbnails(thumbnails) ==
    IF thumbnails = <<>> THEN <<>>
    ELSE InsertSorted(sortedThumbnails(SubSeq(thumbnails, 1, Len(thumbnails) - 1)),
                      thumbnails[Len(thumbnails)])

getBestThumbnail(thumbnails) ==
    IF Len(thumbnails) = 0 THEN null
    ELSE sortedThumbnails(thumbnails)[1].url

InitThumb ==
    /\ now = StartTime
    /\ files = InitFiles
    /\ req = [r \in Reqs |-> [InitReq EXCEPT !.pc = "off"]]
    /\ routeV = "plain"
    /\ impl = "downloader_pip"
    /\ ytDlpPath = "undefined"
    /\ ytdlpInitialized = FALSE
    /\ method = "undefined"
    /\ prov = [r \in Reqs |-> [pc |-> "off"]]
    /\ log = InitLog
    /\ arg \in ThumbLists
    /\ ret = Pending
    /\ hook = InitHook
    /\ calls = <<>>
    /\ fsFaults = FALSE

GetBestThumbnail ==
    /\ ret.fn = "pending"
    /\ ret' = [fn |-> "getBestThumbnail", value |-> getBestThumbnail(arg)]
    /\ UNCHANGED <<now, files, req, routeV, impl, ytDlpPath, ytdlpInitialized, provVars, arg, fsFaults, hookVars>>

NextThumb == GetBestThumbnail

SpecThumb == InitThumb /\ [][NextThumb]_vars

(***************************************************************************)
(* SpecHang: one request, and an external command that never exits         *)
(*                                                                         *)
(* execAsync is promisify(exec) and every call passes a command only: no   *)
(* timeout option, no kill signal, no timer raced against the command.  A  *)
(* child process that never exits leaves its promise pending for ever.     *)
(* The event loop runs every callback that is ready, which is the weak     *)
(* fairness of the specification.                                          *)
(***************************************************************************)
\* the stages of the download chain that await a yt-dlp process
DownloadStages == {"primary", "fb1", "fb2"}

\* the process of the stage request r awaits never exits
NeverExits(r) ==
    /\ req[r].pc \in DownloadStages
    /\ req' = [req EXCEPT ![r] = [@ EXCEPT !.pc = "hung"]]
    /\ UNCHANGED <<now, files, routeV, impl, pureVars, fsFaults, ytDlpPath, ytdlpInitialized, provVars>>

InitHang ==
    /\ now = StartTime
    /\ files = InitFiles
    /\ req = [r \in Reqs |-> IF r = "r1" THEN InitReq ELSE [InitReq EXCEPT !.pc = "off"]]
    /\ routeV \in {"plain", "scan"}
    /\ impl = "downloader_pip"
    /\ ytDlpPath = "undefined"
    /\ ytdlpInitialized = FALSE
    /\ InitProvIdle

NextHang ==
    \/ Next
    \/ NeverExits("r1")

SpecHang == InitHang /\ [][NextHang]_vars /\ WF_vars(NextHang)

(***************************************************************************)
(* SpecFault: one request, over a scratch directory whose listing may fail *)
(***************************************************************************)
InitFault ==
    /\ now = StartTime
    /\ files = InitFiles
    /\ req = [r \in Reqs |-> IF r = "r1" THEN InitReq ELSE [InitReq EXCEPT !.pc = "off"]]
    /\ routeV \in {"plain", "scan"}
    /\ impl = "downloader_pip"
    /\ ytDlpPath = "undefined"
    /\ ytdlpInitialized = FALSE
    /\ method = "undefined"
    /\ prov = [r \in Reqs |-> [pc |-> "off"]]
    /\ log = InitLog
    /\ arg = "none"
    /\ ret = "none"
    /\ hook = InitHook
    /\ calls = <<>>
    /\ fsFaults = TRUE

SpecFault == InitFault /\ [][Next]_vars

(***************************************************************************)
(* File retrieval: GET /api/download?filename= (part_004) and              *)
(* GET /api/video/<filename> with Range support (part_003)                 *)
(*                                                                         *)
(* A path is a sequence of tokens: "/" or a piece of a name.  On disk a    *)
(* path is the sequence of its segments below the root.                    *)
(***************************************************************************)
MaxPathTokens == 3

MaxRangeTokens == 4

PathTokens == {"/", "..", ".", "\\", "video.mp4", "clip.webm", ".env"}

RangeTokens == {"bytes=", "-", "0", "3", "9", "x"}

\* a name, with every ".." token written as two "." tokens
RECURSIVE Canon(_)
Canon(name) ==
    IF name = <<>> THEN <<>>
    ELSE IF name[1] = ".." THEN <<".", ".">> \o Canon(Tail(name))
    ELSE <<name[1]>> \o Canon(Tail(name))

\* str.split(sep), for a one-token separator
RECURSIVE Split(_, _)
Split(s, sep) ==
    IF \A i \in 1..Len(s) : s[i] # sep THEN <<s>>
    ELSE LET i == CHOOSE i \in 1..Len(s) : s[i] = sep /\ \A j \in 1..(i - 1) : s[j] # sep
         IN  <<SubSeq(s, 1, i - 1)>> \o Split(SubSeq(s, i + 1, Len(s)), sep)

\* path.basename (POSIX): the last segment that is not empty, "\" is no separator
basenameKeepsPath(p) == p

basename(p) ==
    LET segs == Split(p, "/")
        full == {i \in 1..Len(segs) : segs[i] # <<>>}
    IN  IF full = {} THEN <<>>
        ELSE segs[CHOOSE i \in full : \A j \in full : j <= i]

\* path.join(dir, p): the segments of p applied to dir, "." and ".." resolved
RECURSIVE Resolve(_, _)
Resolve(dir, segs) ==
    IF segs = <<>> THEN dir
    ELSE LET s == Canon(segs[1])
         IN  IF s = <<>> \/ s = <<".">> THEN Resolve(dir, Tail(segs))
             ELSE IF s = <<".", ".">>
             THEN Resolve(IF dir = <<>> THEN dir ELSE SubSeq(dir, 1, Len(dir) - 1), Tail(segs))
             ELSE Resolve(Append(dir, s), Tail(segs))

join(dir, p) == Resolve(dir, Split(p, "/"))

\* path.join(process.cwd(), 'temp')
TEMP_DIR == << <<"app">>, <<"temp">> >>

\* the disk: the scratch directory with two videos, and what lies outside it
Disk ==
    {[path |-> <<>>, type |-> "dir", size |-> 64],
     [path |-> << <<"app">> >>, type |-> "dir", size |-> 64],
     [path |-> << <<"app">>, <<".env">> >>, type |-> "file", size |-> 3],
     [path |-> TEMP_DIR, type |-> "dir", size |-> 64],
     [path |-> Append(TEMP_DIR, <<"video.mp4">>), type |-> "file", size |-> 10],
     [path |-> Append(TEMP_DIR, <<"clip.webm">>), type |-> "file", size |-> 4]}

existsSync(p) == \E n \in Disk : n.path = p

statSync(p) == CHOOSE n \in Disk : n.path = p

\* a JSON answer of the handler
Json(status) ==
    [status |-> status, headers |-> [contentType |-> "application/json"], body |-> {}]

\* GET of part_004: the filename is a query parameter
GetByQuery(filename) ==
    IF filename = <<>> THEN Json(400)
    ELSE LET sanitizedFilename == basename(filename)
             filePath == join(TEMP_DIR, sanitizedFilename)
         IN  IF ~existsSync(filePath) THEN Json(404)
             ELSE IF statSync(filePath).type = "dir" THEN Json(500)
             ELSE [status |-> 200,
                   headers |-> [contentDisposition |-> "attachment",
                                filename |-> sanitizedFilename,
                                contentType |-> "video/mp4"],
                   body |-> {filePath}]

\* numbers of the range arithmetic: parseInt gives NaN for no leading digit
NaN == [nan |-> TRUE, n |-> 0]

Num(n) == [nan |-> FALSE, n |-> n]

Digits == [d \in {"0", "3", "9"} |-> IF d = "0" THEN 0 ELSE IF d = "3" THEN 3 ELSE 9]

RECURSIVE LeadingDigits(_)
LeadingDigits(s) ==
    IF s = <<>> \/ s[1] \notin DOMAIN Digits THEN <<>>
    ELSE <<s[1]>> \o LeadingDigits(Tail(s))

RECURSIVE Decimal(_)
Decimal(ds) ==
    IF ds = <<>> THEN 0
    ELSE 10 * Decimal(SubSeq(ds, 1, Len(ds) - 1)) + Digits[ds[Len(ds)]]

\* parseInt(s, 10)
parseInt(s) ==
    IF LeadingDigits(s) = <<>> THEN NaN ELSE Num(Decimal(LeadingDigits(s)))

\* range.replace(/bytes=/, ''): the first occurrence goes
ReplaceBytes(range) ==
    IF \A i \in 1..Len(range) : range[i] # "bytes=" THEN range
    ELSE LET i == CHOOSE i \in 1..Len(range) :
                      range[i] = "bytes=" /\ \A j \in 1..(i - 1) : range[j] # "bytes="
         IN  SubSeq(range, 1, i - 1) \o SubSeq(range, i + 1, Len(range))

\* end - start + 1
chunkSize(start, end) ==
    IF start.nan \/ end.nan THEN NaN ELSE Num(end.n - start.n + 1)

\* fs.createReadStream(filePath, { start, end }) throws for a start or end that
\* is no integer >= 0, and for start > end
StreamOptionsValid(start, end) ==
    /\ ~start.nan
    /\ ~end.nan
    /\ start.n <= end.n

\* GET of part_003: the filename is the last segment of the path
GetByPath(pathname, range) ==
    LET pathParts == Split(pathname, "/")
        filename == pathParts[Len(pathParts)]
    IN  IF filename = <<>> THEN Json(400)
        ELSE LET sanitizedFilename == basename(filename)
                 filePath == join(TEMP_DIR, sanitizedFilename)
             IN  IF ~existsSync(filePath) THEN Json(404)
                 ELSE LET fileSize == statSync(filePath).size
                          parts == Split(ReplaceBytes(range), "-")
                          start == parseInt(parts[1])
                          end == IF Len(parts) > 1 /\ parts[2] # <<>>
                                 THEN parseInt(parts[2]) ELSE Num(fileSize - 1)
                      IN  IF range # <<>>
                          THEN IF ~StreamOptionsValid(start, end) THEN Json(500)
                               ELSE [status |-> 206,
                                     headers |-> [contentRange |-> <<start, end, Num(fileSize)>>,
                                                  acceptRanges |-> "bytes",
                                                  contentLength |-> chunkSize(start, end),
                                                  contentType |-> "video/mp4"],
                                     body |-> {filePath}]
                          ELSE IF statSync(filePath).type = "dir" THEN Json(500)
                          ELSE [status |-> 200,
                                headers |-> [contentLength |-> Num(fileSize),
                                             contentType |-> "video/mp4"],
                                body |-> {filePath}]

\* the token sequences of at most n tokens
SeqsUpTo(S, n) == UNION {[1..k -> S] : k \in 0..n}

\* new URL(request.url).pathname has its "." and ".." segments resolved and
\* every "\" turned into "/"
NormalizedPath(p) ==
    /\ \A i \in 1..Len(p) : p[i] # "\\"
    /\ \A i \in 1..Len(Split(p, "/")) : Canon(Split(p, "/")[i]) \notin {<<".">>, <<".", ".">>}

\* the requests: any filename without Range, any Range for the two videos
FileRequests ==
    {[handler |-> "part_004", filename |-> f, range |-> <<>>] :
        f \in SeqsUpTo(PathTokens, MaxPathTokens)}
    \cup {[handler |-> "part_003", filename |-> f, range |-> <<>>] :
        f \in {p \in SeqsUpTo(PathTokens, MaxPathTokens) : NormalizedPath(p)}}
    \cup {[handler |-> "part_003", filename |-> f, range |-> rg] :
        f \in {<<"video.mp4">>, <<"clip.webm">>}, rg \in SeqsUpTo(RangeTokens, MaxRangeTokens)}

InitFile ==
    /\ now = StartTime
    /\ files = InitFiles
    /\ req = [r \in Reqs |-> [InitReq EXCEPT !.pc = "off"]]
    /\ routeV = "plain"
    /\ impl = "downloader_pip"
    /\ ytDlpPath = "undefined"
    /\ ytdlpInitialized = FALSE
    /\ method = "undefined"
    /\ prov = [r \in Reqs |-> [pc |-> "off"]]
    /\ log = InitLog
    /\ arg \in FileRequests
    /\ ret = Pending
    /\ hook = InitHook
    /\ calls = <<>>
    /\ fsFaults = FALSE

GetDownload ==
    /\ ret.fn = "pending"
    /\ arg.handler = "part_004"
    /\ ret' = [fn |-> "GET", value |-> GetByQuery(arg.filename)]
    /\ UNCHANGED <<now, files, req, routeV, impl, ytDlpPath, ytdlpInitialized, provVars, arg, fsFaults, hookVars>>

GetVideo ==
    /\ ret.fn = "pending"
    /\ arg.handler = "part_003"
    /\ ret' = [fn |-> "GET", value |-> GetByPath(arg.filename, arg.range)]
    /\ UNCHANGED <<now, files, req, routeV, impl, ytDlpPath, ytdlpInitialized, provVars, arg, fsFaults, hookVars>>

NextFile ==
    \/ GetDownload
    \/ GetVideo

SpecFile == InitFile /\ [][NextFile]_vars

(***************************************************************************)
(* SpecSweep: cleanTempDirectory alone, over directories whose files have  *)
(* modification times on both sides of the one-hour threshold              *)
(***************************************************************************)
\* modification times: long ago, one millisecond on either side of the
\* threshold, the threshold itself, ten minutes ago, and just now
SweepMtimes ==
    {0, StartTime - OneHourMs - 1, StartTime - OneHourMs, StartTime - OneHourMs + 1,
     StartTime - 600000, StartTime}

\* one file per modification time
SweepFile(m) == [name |-> <<"f", ToString(m), ".", "mp4">>, mtime |-> m, by |-> <<"r0", "primary">>]

SweepDirs == {{SweepFile(m) : m \in ms} : ms \in SUBSET SweepMtimes}

InitSweep ==
    /\ now = StartTime
    /\ files = InitFiles
    /\ req = [r \in Reqs |-> [InitReq EXCEPT !.pc = "off"]]
    /\ routeV = "plain"
    /\ impl = "downloader_pip"
    /\ ytDlpPath = "undefined"
    /\ ytdlpInitialized = FALSE
    /\ method = "undefined"
    /\ prov = [r \in Reqs |-> [pc |-> "off"]]
    /\ log = InitLog
    /\ arg \in SweepDirs
    /\ ret = Pending
    /\ hook = InitHook
    /\ calls = <<>>
    /\ fsFaults \in BOOLEAN

\* cleanTempDirectory runs to its end.  With file-system faults the listing
\* may throw (outer catch: nothing is removed) and statSync or rimraf may
\* throw for some files (inner catch: the file stays); each is logged.
SweepDone ==
    /\ ret.fn = "pending"
    /\ \E listed \in BOOLEAN, failing \in SUBSET arg :
         /\ ~fsFaults => (listed /\ failing = {})
         /\ ret' = [fn |-> "cleanTempDirectory",
                    value |-> IF listed
                              THEN cleanTempDirectory(arg \ failing, now) \cup failing
                              ELSE arg,
                    errors |-> IF listed THEN Cardinality(failing) ELSE 1]
    /\ UNCHANGED <<now, files, req, routeV, impl, ytDlpPath, ytdlpInitialized, provVars, arg, fsFaults, hookVars>>

SpecSweep == InitSweep /\ [][SweepDone]_vars

(***************************************************************************)
(* SpecName: generateSafeFilename alone                                    *)
(***************************************************************************)
MaxTitleTokens == 3

\* words, the underscore, and the characters that are not \w
TitleTokens == {"Test", "Video", "_"} \cup NonWord

\* values of Date.now()
Timestamps == {0, 1700000000, StartTime}

InitName ==
    /\ now = StartTime
    /\ files = InitFiles
    /\ req = [r \in Reqs |-> [InitReq EXCEPT !.pc = "off"]]
    /\ routeV = "plain"
    /\ impl = "downloader_pip"
    /\ ytDlpPath = "undefined"
    /\ ytdlpInitialized = FALSE
    /\ method = "undefined"
    /\ prov = [r \in Reqs |-> [pc |-> "off"]]
    /\ log = InitLog
    /\ arg \in [title : SeqsUpTo(TitleTokens, MaxTitleTokens), timestamp : Timestamps]
    /\ ret = Pending
    /\ hook = InitHook
    /\ calls = <<>>
    /\ fsFaults = FALSE

GenerateSafeFilename ==
    /\ ret.fn = "pending"
    /\ ret' = [fn |-> "generateSafeFilename",
               value |-> generateSafeFilename(arg.title, arg.timestamp)]
    /\ UNCHANGED <<now, files, req, routeV, impl, ytDlpPath, ytdlpInitialized, provVars, arg, fsFaults, hookVars>>

SpecName == InitName /\ [][GenerateSafeFilename]_vars

(***************************************************************************)
(* SpecStatic: ensureYtDlp with the static Linux binary                    *)
(* (lib/video/downloader.ts:648-785), one caller on Linux, one action per  *)
(* awaited command.  ran is the list of the commands run with their        *)
(* outcome; bin is what lies at ytDlpPath and whether it is executable.    *)
(***************************************************************************)
\* the machine's architecture, by the release binary built for it (held in
\* the variable method, which this provider does not use otherwise)
Machines == {"yt-dlp_linux", "yt-dlp_linux_aarch64"}

InitStaticCall ==
    [pc |-> "probe", triedStaticBinary |-> FALSE, bin |-> "none", exec |-> FALSE,
     ran |-> <<>>, result |-> "none"]

InitStatic ==
    /\ now = StartTime
    /\ files = InitFiles
    /\ req = [r \in Reqs |-> [InitReq EXCEPT !.pc = "off"]]
    /\ routeV = "plain"
    /\ impl = "downloader_static"
    /\ ytDlpPath = "undefined"
    /\ ytdlpInitialized = FALSE
    /\ method \in Machines
    /\ prov = [c \in Reqs |-> InitStaticCall]
    /\ log = InitLog
    /\ arg = "none"
    /\ ret = "none"
    /\ hook = InitHook
    /\ calls = <<>>
    /\ fsFaults \in BOOLEAN

\* caller c goes on: cmd ended with outcome ok, the next position is pc
StaticGo(c, cmd, ok, pc, p) ==
    /\ prov' = [prov EXCEPT ![c] = [p EXCEPT !.pc = pc, !.ran = Append(@, <<cmd, ok>>)]]
    /\ UNCHANGED <<now, files, req, routeV, impl, pureVars, fsFaults, ytdlpInitialized, method, log>>

\* yt-dlp --version; on failure the bin directory is made
StaticProbeDone(c) ==
    /\ prov[c].pc = "probe"
    /\ UNCHANGED ytDlpPath
    /\ \/ StaticGo(c, "probe", TRUE, "done", [prov[c] EXCEPT !.result = "true"])
       \/ fsFaults /\ StaticGo(c, "probe", FALSE, "done", [prov[c] EXCEPT !.result = "false"])
       \/ StaticGo(c, "probe", FALSE, "curl", prov[c])

\* curl -L .../yt-dlp_linux_aarch64 -o ytDlpPath; triedStaticBinary is set
\* after the await, so a failed curl leaves it false and the catch goes on to
\* the verification
StaticCurlDone(c) ==
    /\ prov[c].pc = "curl"
    /\ UNCHANGED ytDlpPath
    /\ \/ StaticGo(c, "curl", TRUE, "chmod",
                   [prov[c] EXCEPT !.triedStaticBinary = TRUE,
                                   !.bin = "yt-dlp_linux_aarch64", !.exec = FALSE])
       \/ StaticGo(c, "curl", FALSE,
                   IF prov[c].triedStaticBinary THEN "curlAlt" ELSE "verify", prov[c])

\* chmod +x ytDlpPath
StaticChmodDone(c) ==
    /\ prov[c].pc = "chmod"
    /\ UNCHANGED ytDlpPath
    /\ \/ StaticGo(c, "chmod", TRUE, "verify", [prov[c] EXCEPT !.exec = TRUE])
       \/ StaticGo(c, "chmod", FALSE,
                   IF prov[c].triedStaticBinary THEN "curlAlt" ELSE "verify", prov[c])

\* catch (directDownloadError): curl -L .../yt-dlp_linux -o ytDlpPath
StaticCurlAltDone(c) ==
    /\ prov[c].pc = "curlAlt"
    /\ UNCHANGED ytDlpPath
    /\ \/ StaticGo(c, "curlAlt", TRUE, "chmodAlt",
                   [prov[c] EXCEPT !.bin = "yt-dlp_linux", !.exec = FALSE])
       \/ StaticGo(c, "curlAlt", FALSE, "verify", prov[c])

\* chmod +x ytDlpPath of the alternate binary; a failure is only logged
StaticChmodAltDone(c) ==
    /\ prov[c].pc = "chmodAlt"
    /\ UNCHANGED ytDlpPath
    /\ \/ StaticGo(c, "chmodAlt", TRUE, "verify", [prov[c] EXCEPT !.exec = TRUE])
       \/ StaticGo(c, "chmodAlt", FALSE, "verify", prov[c])

\* "${ytDlpPath}" --version: passes only for an executable binary of the
\* machine's architecture
StaticVerifyDone(c) ==
    /\ prov[c].pc = "verify"
    /\ \/ /\ prov[c].exec /\ prov[c].bin = method
          /\ ytDlpPath' = "bin"
          /\ StaticGo(c, "verify", TRUE, "done", [prov[c] EXCEPT !.result = "true"])
       \/ /\ UNCHANGED ytDlpPath
          /\ StaticGo(c, "verify", FALSE, "python", prov[c])

\* tryPythonInstallation: python3, then python; each is version, pip install,
\* module version
StaticPythonDone(c) ==
    /\ prov[c].pc = "python"
    /\ \E py \in {"python3", "python", "none"} :
         /\ ytDlpPath' = IF py = "none" THEN ytDlpPath ELSE py
         /\ StaticGo(c, "python", py # "none", "done",
                     [prov[c] EXCEPT !.result = IF py = "none" THEN "false" ELSE "true"])

NextStatic ==
    \/ \E c \in Reqs : StaticProbeDone(c)
    \/ \E c \in Reqs : StaticCurlDone(c)
    \/ \E c \in Reqs : StaticChmodDone(c)
    \/ \E c \in Reqs : StaticCurlAltDone(c)
    \/ \E c \in Reqs : StaticChmodAltDone(c)
    \/ \E c \in Reqs : StaticVerifyDone(c)
    \/ \E c \in Reqs : StaticPythonDone(c)

SpecStatic == InitStatic /\ [][NextStatic]_vars

(***************************************************************************)
(* SpecHook: the client hook useYoutube (hooks/useYoutube.tsx).  hook is   *)
(* the useState values; calls lists the handleSubmit and downloadVideo     *)
(* calls made so far, each with its position: a call stands at an await or *)
(* at an armed timer, or is done.  One action is one synchronous section.  *)
(* SpecHookLive adds the fairness the timers give: a pending fetch ends,   *)
(* by an answer or by the abort after 120 seconds, and an armed timer      *)
(* fires.  Nothing bounds the read of a response body or the HEAD request. *)
(***************************************************************************)
MaxCalls == 3

\* what the user types: nothing, a watch URL, another site, a channel page
HookUrls ==
    {<<>>, Shapes.watch \o VideoIdChars, Shapes.other \o VideoIdChars,
     Shapes.channel \o VideoIdChars}

InitHookSpec ==
    /\ now = StartTime
    /\ files = InitFiles
    /\ req = [r \in Reqs |-> [InitReq EXCEPT !.pc = "off"]]
    /\ routeV = "plain"
    /\ impl = "downloader_pip"
    /\ ytDlpPath = "undefined"
    /\ ytdlpInitialized = FALSE
    /\ method = "undefined"
    /\ prov = [r \in Reqs |-> [pc |-> "off"]]
    /\ log = InitLog
    /\ arg = "none"
    /\ ret = "none"
    /\ hook = InitHook
    /\ calls = <<>>
    /\ fsFaults = FALSE

HookFrame ==
    UNCHANGED <<now, files, req, routeV, impl, ytDlpPath, ytdlpInitialized,
                provVars, arg, ret, fsFaults>>

\* call i moves to position pc
At(i, pc) == [calls EXCEPT ![i].pc = pc]

\* the catch and finally of handleSubmit
SubmitFailed(i, message) ==
    /\ hook' = [hook EXCEPT !.error = message, !.downloadStatus = "error",
                            !.isLoading = FALSE]
    /\ calls' = At(i, "done")

\* setUrl, and the effect that clears the error when the URL changes
SetUrl ==
    /\ \E u \in HookUrls :
         /\ u # hook.url
         /\ hook' = [hook EXCEPT !.url = u, !.error = ""]
    /\ UNCHANGED calls
    /\ HookFrame

\* handleSubmit up to its first await; the hook does not look at isLoading
HandleSubmit ==
    /\ Len(calls) < MaxCalls
    /\ LET validation == validateYoutubeUrl(hook.url)
           reset == [hook EXCEPT !.error = "", !.videoInfo = "null", !.fileInfo = "null"]
       IN  IF ~validation.valid
           THEN /\ hook' = [reset EXCEPT !.error = validation.message]
                /\ calls' = Append(calls, [op |-> "handleSubmit", pc |-> "done",
                                           valid |-> FALSE, sent |-> FALSE])
           ELSE /\ hook' = [reset EXCEPT !.isLoading = TRUE,
                                         !.downloadStatus = "processing"]
                /\ calls' = Append(calls, [op |-> "handleSubmit", pc |-> "fetch",
                                           valid |-> TRUE, sent |-> TRUE])
    /\ HookFrame

\* await fetch('/api/download') is settled: a response, whose status is ok or
\* not, or a network error; clearTimeout follows a response
FetchDone(i) ==
    /\ calls[i].pc = "fetch"
    /\ \/ calls' = At(i, "json") /\ UNCHANGED hook
       \/ calls' = At(i, "errorJson") /\ UNCHANGED hook
       \/ SubmitFailed(i, "Failed to fetch")
    /\ HookFrame

\* the timer of 120000 ms aborts the pending fetch
AbortFired(i) ==
    /\ calls[i].pc = "fetch"
    /\ SubmitFailed(i, "Request timed out. Please try again.")
    /\ HookFrame

\* await response.json() is settled, of an ok response or of an error one
JsonDone(i) ==
    /\ calls[i].pc \in {"json", "errorJson"}
    /\ \/ /\ calls[i].pc = "json"
          /\ hook' = [hook EXCEPT !.videoInfo = "videoInfo", !.fileInfo = "file",
                                  !.downloadStatus = "ready", !.isLoading = FALSE]
          /\ calls' = At(i, "done")
       \/ /\ calls[i].pc = "json"
          /\ SubmitFailed(i, "Unexpected end of JSON input")
       \/ /\ calls[i].pc = "errorJson"
          /\ \E message \in {"Video download failed", "Failed to download video",
                             "Error: 500 Internal Server Error"} :
               SubmitFailed(i, message)
    /\ HookFrame

\* downloadVideo up to its first await
DownloadVideo ==
    /\ Len(calls) < MaxCalls
    /\ IF hook.fileInfo = "null"
       THEN /\ hook' = [hook EXCEPT !.error = "No file information available"]
            /\ calls' = Append(calls, [op |-> "downloadVideo", pc |-> "done",
                                       valid |-> FALSE, sent |-> FALSE])
       ELSE /\ hook' = [hook EXCEPT !.downloadStatus = "downloading", !.error = ""]
            /\ calls' = Append(calls, [op |-> "downloadVideo", pc |-> "head",
                                       valid |-> TRUE, sent |-> TRUE])
    /\ HookFrame

\* await fetch(downloadUrl, HEAD) is settled: the link is clicked and the
\* timers are armed, or the catch sets the error
HeadDone(i) ==
    /\ calls[i].pc = "head"
    /\ \/ calls' = At(i, "timer") /\ UNCHANGED hook
       \/ /\ hook' = [hook EXCEPT !.downloadStatus = "error",
                                  !.error = "Download failed: File not available (404)"]
          /\ calls' = At(i, "done")
    /\ HookFrame

\* setTimeout(() => setDownloadStatus('complete'), 1000) fires
TimerFired(i) ==
    /\ calls[i].pc = "timer"
    /\ hook' = [hook EXCEPT !.downloadStatus = "complete"]
    /\ calls' = At(i, "done")
    /\ HookFrame

\* resetForm; no pending call or timer is cancelled
ResetForm ==
    /\ hook # InitHook
    /\ hook' = InitHook
    /\ UNCHANGED calls
    /\ HookFrame

NextHook ==
    \/ SetUrl
    \/ HandleSubmit
    \/ \E i \in DOMAIN calls : FetchDone(i)
    \/ \E i \in DOMAIN calls : AbortFired(i)
    \/ \E i \in DOMAIN calls : JsonDone(i)
    \/ DownloadVideo
    \/ \E i \in DOMAIN calls : HeadDone(i)
    \/ \E i \in DOMAIN calls : TimerFired(i)
    \/ ResetForm

SpecHook == InitHookSpec /\ [][NextHook]_vars

SpecHookLive ==
    /\ InitHookSpec
    /\ [][NextHook]_vars
    /\ \A i \in 1..MaxCalls :
         /\ WF_vars(i \in DOMAIN calls /\ (FetchDone(i) \/ AbortFired(i)))
         /\ WF_vars(i \in DOMAIN calls /\ TimerFired(i))

(***************************************************************************)
(* Claims                                                                  *)
(***************************************************************************)
\* request r sends its response in this step
Responds(r) == req[r].pc # "done" /\ req'[r].pc = "done"

\* request r is being served: posted, not yet answered
InProgress(r) == req[r].pc \notin {"idle", "off", "done"}

\* the download output (not the metadata file) request o has written so far
OutputOf(o) == {f \in files : f.by[1] = o /\ f.by[2] # "info"}

\* C1: the step in which one request answers 200 (and so has run its sibling
\* cleanup) deletes no output file of another request that is in progress.
C1_CleanupSparesOtherRequests ==
    [][\A r \in Reqs : \A o \in Reqs \ {r} :
          (Responds(r) /\ req'[r].resp.status = 200 /\ InProgress(o))
              => OutputOf(o) \subseteq files']_vars

\* the entries of fs whose name starts with the request's expected base name
Candidates(fs, q) == {f \in fs : StartsWith(f.name, baseName(q))}

\* the route looks for the file after the primary download and its delay
PrimarySucceeded(r) == req[r].pc = "delay" /\ Responds(r)

\* C2: when the route answers 200 after the primary strategy succeeded, the
\* scratch directory holds exactly one file whose name starts with the request's
\* base name, and it is the file the response names.
C2_OneArtifactAfterPrimary ==
    [][\A r \in Reqs :
          (PrimarySucceeded(r) /\ req'[r].resp.status = 200)
              => Names(Candidates(files', req[r])) = {req'[r].resp.file}]_vars

\* C3: when the primary download failed and a fallback command succeeded and
\* wrote a file, the request answers 200 with a file the fallback wrote, and no
\* file written by the primary attempt is left when the response is sent.
C3_SecondaryResultNoPrimaryLeftover ==
    [][\A r \in Reqs :
          (Responds(r) /\ "primary" \in req[r].tried /\ req'[r].secondaryOK)
              => /\ req'[r].resp.status = 200
                 /\ \E f \in files' : /\ f.name = req'[r].resp.file
                                       /\ f.by \in {Who(r, "fb1"), Who(r, "fb2")}
                 /\ ~ \E f \in files' : f.by = Who(r, "primary")]_vars

\* the download stages of the yt-dlp chain of the deployed downloader
Stages == IF impl = "part_009" THEN {"primary", "fb1", "fb2", "curl"}
          ELSE {"primary", "fb1", "fb2"}

\* C4: when downloadVideo's yt-dlp chain raises its error to the route, every
\* stage of the chain has been tried and the error carries the message of the
\* stage that failed last.
C4_ErrorAfterAllStagesCarriesLast ==
    [][\A r \in Reqs :
          (Responds(r) /\ req'[r].resp.kind = "download" /\ "primary" \in req'[r].tried)
              => /\ Stages \subseteq req'[r].tried
                 /\ req'[r].thrown = req'[r].lastFailed]_vars

\* C5: when the download reported success, <base>.mp4 is missing and
\* <base>.webm exists, the route answers 200 naming <base>.webm.
C5_AdoptsOtherExtension ==
    [][\A r \in Reqs :
          (/\ PrimarySucceeded(r)
           /\ ~Exists(files, baseName(req[r]) \o MP4)
           /\ Exists(files, baseName(req[r]) \o WEBM))
              => /\ req'[r].resp.status = 200
                 /\ req'[r].resp.file = baseName(req[r]) \o WEBM]_vars

\* C6: when the recovery scan finds several files starting with the base name,
\* the file the response names is one with the latest mtime among them.
C6_AdoptsLatestModified ==
    [][\A r \in Reqs :
          (/\ PrimarySucceeded(r)
           /\ routeV = "scan"
           /\ ~Exists(files, baseName(req[r]) \o MP4)
           /\ Cardinality(Candidates(files, req[r])) > 1)
              => \E f \in Candidates(files, req[r]) :
                    /\ f.name = req'[r].resp.file
                    /\ \A g \in Candidates(files, req[r]) : g.mtime <= f.mtime]_vars

\* the commands of the probe and of provisioning, as recorded per call
ProvisioningCmds == {"probe", "provision"}

\* C7: a call to the provider that starts after some call completed with a
\* ready backend runs neither the version probe nor a provisioning command.
C7_NoReprobeAfterReady ==
    \A c \in Reqs : prov[c].afterReady => prov[c].ran \cap ProvisioningCmds = {}

\* C8: of the calls to part_009's ensureYtDlp that start before the first probe
\* has completed, at most one runs the probe (the others wait for its result).
C8_ConcurrentCallersCoalesce ==
    \A a \in Reqs : \A b \in Reqs \ {a} :
        (impl = "part_009" /\ prov[a].early /\ prov[b].early)
            => ~("probe" \in prov[a].ran /\ "probe" \in prov[b].ran)

\* C9: a call that returns true reports a backend that some strategy
\* established; a call that returns false is answered with the capability
\* error and runs no backend command.
C9_UnavailableFailsFast ==
    \A c \in Reqs :
        /\ prov[c].result = "true" => prov[c].reported \in log.established
        /\ prov[c].result = "false" =>
              /\ "backend" \notin prov[c].ran
              /\ prov[c].resp = "capability"

\* C10: a call returns ready only with a backend that passed a verification
\* invocation, the strategies are tried in their fixed order, and a call that
\* returned starts no further strategy.
C10_FirstVerifiedWins ==
    /\ [](\A c \in Reqs : prov[c].result = "true" => prov[c].reported \in log.verified)
    /\ [][\A c \in Reqs :
            /\ prov'[c].i \in {prov[c].i, prov[c].i + 1, 1}
            /\ prov[c].result # "none" => prov'[c].ran \subseteq prov[c].ran]_vars

\* C11: getVideoInfo never raises to the route: no request is answered from
\* the route's catch around getVideoInfo (the "metadata" response).
C11_GetVideoInfoNeverRaises ==
    \A r \in Reqs : req[r].resp.kind # "metadata"

\* the URL shapes extractVideoId has a pattern for
RecognizedShapes == {"watch", "short", "embed", "v", "shorts", "live"}

\* a further query parameter ("&..." after watch?v=ID, "?..." after a path)
\* or a trailing path segment after the identifier
Continues(a) ==
    \/ a.suffix = "none"
    \/ a.shape = "watch" /\ a.suffix = "amp"
    \/ a.shape # "watch" /\ a.suffix \in {"query", "path", "slash"}

\* C12: for the canonical identifier in each recognized URL shape, with or
\* without a further query parameter or a trailing path segment,
\* extractVideoId returns exactly that identifier.
C12_ExtractsExactlyTheId ==
    (/\ ret.fn = "extractVideoId"
     /\ arg.wrapper = "none"
     /\ arg.shape \in RecognizedShapes
     /\ arg.id = VideoIdChars
     /\ Continues(arg))
        => ret.value = VideoIdChars

\* C13: for a URL of another host that merely contains the YouTube text in
\* its path or query, and for an input with no identifier or no YouTube host,
\* extractVideoId returns null and validateYoutubeUrl reports invalid.
C13_ForeignOrMalformedRejected ==
    (\/ arg.wrapper # "none"
     \/ arg.shape \in {"other", "blank", "channel"}
     \/ arg.id = <<>> /\ arg.suffix = "none")
        => /\ ret.fn = "extractVideoId" => ret.value = null
           /\ ret.fn = "validateYoutubeUrl" => ~ret.value.valid

\* the positions of the entries of the largest width * height
Largest(t) == {i \in 1..Len(t) : \A j \in 1..Len(t) : Resolution(t[j]) <= Resolution(t[i])}

\* C14: getBestThumbnail returns the URL of the first entry of the largest
\* width * height (a missing width or height counted as 0), and null for an
\* empty list.
C14_BestThumbnailIsFirstLargest ==
    ret.fn = "getBestThumbnail" =>
        IF arg = <<>> THEN ret.value = null
        ELSE \E i \in Largest(arg) :
                /\ \A j \in Largest(arg) : i <= j
                /\ ret.value = arg[i].url

\* a tie between two largest entries behind a smaller one, one entry with a
\* missing size, answered with the first of the two
C14_Witness ==
    /\ ret.fn = "getBestThumbnail"
    /\ Len(arg) = 3
    /\ Largest(arg) = {2, 3}
    /\ Resolution(arg[2]) > 0
    /\ "height" \notin DOMAIN arg[1]
    /\ ret.value = ThumbUrl(2)

\* C15: every download attempt is bounded by a timeout, so a request whose
\* download has started eventually returns, also when the external process
\* never exits.
C15_RequestEventuallyReturns ==
    \A r \in Reqs : (req[r].pc \in DownloadStages) ~> (req[r].pc = "done")

\* C16: a failure inside the housekeeping (the sweep of old files, the removal
\* of sibling files, a failure to list the scratch directory included) never
\* changes the outcome: a request whose primary download succeeded and whose
\* expected file is there answers 200.
C16_HousekeepingFailureHarmless ==
    [][\A r \in Reqs :
          (PrimarySucceeded(r) /\ Exists(files, baseName(req[r]) \o MP4))
              => req'[r].resp.status = 200]_vars

\* the error responses that report a failure to acquire the video: capability
\* unavailable, metadata not retrievable, every stage failed, file not found
AcquisitionKinds == {"capability", "metadata", "notitle", "download", "unexpected", "notfound"}

\* C17: an error response has a 4xx status exactly when the request failed
\* validation, and a 5xx status when the acquisition failed.
C17_StatusClassMatchesCause ==
    \A r \in Reqs :
        LET resp == req[r].resp
        IN  resp.status >= 400 =>
                /\ resp.status \in 400..499 <=> resp.kind = "validation"
                /\ resp.kind \in AcquisitionKinds => resp.status \in 500..599

\* C18: whatever the filename parameter ('/', '\' and '..' included), the
\* content a file-retrieval handler reads and serves is that of a regular file
\* directly inside TEMP_DIR.
C18_ServesOnlyFilesInTempDir ==
    ret.fn = "GET" =>
        \A p \in ret.value.body :
            /\ existsSync(p)
            /\ statSync(p).type = "file"
            /\ Len(p) = Len(TEMP_DIR) + 1
            /\ SubSeq(p, 1, Len(TEMP_DIR)) = TEMP_DIR

\* a traversal attempt with ".." and "/" that names a file of the scratch
\* directory in its last segment is answered with that file
C18_Witness ==
    /\ ret.fn = "GET"
    /\ arg.filename = <<"..", "/", "video.mp4">>
    /\ ret.value.status = 200
    /\ ret.value.body = {Append(TEMP_DIR, <<"video.mp4">>)}

\* C19: whatever the Range header value, a 206 answer for a file of size S
\* carries Content-Range 'bytes start-end/S' where 0 <= start <= end <= S - 1,
\* and Content-Length end - start + 1.
C19_RangeWithinFile ==
    (ret.fn = "GET" /\ arg.range # <<>> /\ ret.value.status = 206) =>
        LET h == ret.value.headers
            S == statSync(join(TEMP_DIR, arg.filename)).size
        IN  /\ ~h.contentRange[1].nan /\ ~h.contentRange[2].nan
            /\ 0 <= h.contentRange[1].n
            /\ h.contentRange[1].n <= h.contentRange[2].n
            /\ h.contentRange[2].n <= S - 1
            /\ h.contentRange[3] = Num(S)
            /\ h.contentLength = Num(h.contentRange[2].n - h.contentRange[1].n + 1)

\* the Content-Type the repository gives an extension (app/api/file/route.ts)
contentTypeFor(extension) ==
    CASE extension = "mp4" -> "video/mp4"
      [] extension = "webm" -> "video/webm"
      [] extension = "mov" -> "video/quicktime"
      [] extension = "avi" -> "video/x-msvideo"
      [] extension = "mkv" -> "video/x-matroska"
      [] OTHER -> "video/mp4"

\* filename.split('.').pop() of the two videos on the disk
ExtensionOf(p) ==
    IF p[Len(p)] = <<"clip.webm">> THEN "webm" ELSE "mp4"

\* C20: every successful file-retrieval response, full or partial, carries
\* 'Content-Disposition: attachment' and the Content-Type of the file's
\* extension (video/webm for .webm).
C20_AttachmentAndTypeByExtension ==
    (ret.fn = "GET" /\ ret.value.status \in {200, 206}) =>
        /\ "contentDisposition" \in DOMAIN ret.value.headers
        /\ ret.value.headers.contentDisposition = "attachment"
        /\ \A p \in ret.value.body :
              ret.value.headers.contentType = contentTypeFor(ExtensionOf(p))

\* C21: after cleanTempDirectory has run with no error, every file modified
\* more than one hour before the sweep is gone and every file modified within
\* the last hour is still there.
C21_SweepRemovesOldKeepsRecent ==
    (ret.fn = "cleanTempDirectory" /\ ret.errors = 0) =>
        \A f \in arg :
            /\ f.mtime < now - OneHourMs => f \notin ret.value
            /\ f.mtime >= now - OneHourMs => f \in ret.value

\* a sweep with no error over a directory that holds a file from long ago, one
\* a millisecond past the hour, one exactly an hour old and one of ten minutes
C21_Witness ==
    /\ ret.fn = "cleanTempDirectory"
    /\ ret.errors = 0
    /\ arg = {SweepFile(m) : m \in {0, now - OneHourMs - 1, now - OneHourMs, now - 600000}}
    /\ ret.value = {SweepFile(m) : m \in {now - OneHourMs, now - 600000}}

\* the tokens of s that are words, in order
RECURSIVE WordsOf(_)
WordsOf(s) ==
    IF s = <<>> THEN <<>>
    ELSE IF s[1] \in NonWord \cup {"_"} THEN WordsOf(Tail(s))
    ELSE <<s[1]>> \o WordsOf(Tail(s))

\* C22: generateSafeFilename(title, timestamp) is '<safeTitle>_<timestamp>.mp4':
\* safeTitle keeps the words of the title in order, has '_' where the title has
\* a run of '_' and of characters outside [A-Za-z0-9_], and nothing else; the
\* result has no path separator and no '.' but that of the final '.mp4'.
C22_SafeFilenameFormat ==
    ret.fn = "generateSafeFilename" =>
        LET name == ret.value
            suffix == <<"_", ToString(arg.timestamp), ".", "mp4">>
            safeTitle == SubSeq(name, 1, Len(name) - Len(suffix))
        IN  /\ EndsWith(name, suffix)
            /\ \A i \in 1..Len(safeTitle) : safeTitle[i] \notin NonWord
            /\ \A i \in 1..(Len(safeTitle) - 1) : ~(safeTitle[i] = "_" /\ safeTitle[i + 1] = "_")
            /\ WordsOf(safeTitle) = WordsOf(arg.title)
            /\ \A i \in 1..Len(arg.title) :
                  (arg.title[i] \in NonWord \cup {"_"}) =>
                      \E j \in 1..Len(safeTitle) :
                          /\ safeTitle[j] = "_"
                          /\ WordsOf(SubSeq(safeTitle, 1, j)) = WordsOf(SubSeq(arg.title, 1, i))
            /\ (\A i \in 1..Len(arg.title) : arg.title[i] \notin NonWord \cup {"_"})
                  => safeTitle = arg.title
            /\ \A i \in 1..Len(name) : name[i] # "/"
            /\ \A i \in 1..Len(name) : name[i] = "." => i = Len(name) - 1

\* 'Test Video' at 1700000000 gives 'Test_Video_1700000000.mp4'
C22_Witness ==
    /\ ret.fn = "generateSafeFilename"
    /\ arg.title = <<"Test", " ", "Video">>
    /\ arg.timestamp = 1700000000
    /\ ret.value = <<"Test", "_", "Video", "_", "1700000000", ".", "mp4">>

\* C23: the 'Download failed after multiple attempts' error reaches the caller
\* only after both fallback commands have been tried: when the first fallback
\* command fails, the second one is run before any error is raised.
C23_SecondFallbackBeforeError ==
    \A r \in Reqs :
        req[r].resp.kind = "download" => {"fb1", "fb2"} \subseteq req[r].tried

\* C24: in the static-binary provider on Linux, the Python installation is
\* reached only after the alternate-architecture binary (yt-dlp_linux) has
\* been downloaded and put to the version check.
C24_AlternateBinaryBeforePython ==
    \A c \in Reqs :
        prov[c].pc = "python" =>
            \E i \in 1..Len(prov[c].ran) : prov[c].ran[i][1] = "curlAlt"

\* the step in which the i-th call, one of handleSubmit, returns
SubmitReturns(i) ==
    /\ i \in DOMAIN calls'
    /\ calls'[i].op = "handleSubmit"
    /\ calls'[i].pc = "done"
    /\ i \notin DOMAIN calls \/ calls[i].pc # "done"

EndsReady(h) ==
    /\ h.downloadStatus = "ready"
    /\ h.videoInfo # "null"
    /\ h.fileInfo # "null"
    /\ h.error = ""

EndsError(h) == h.downloadStatus = "error" /\ h.error # ""

\* C25: every handleSubmit call eventually returns, and returns with
\* isLoading false; a URL that fails validation sends no request; a validated
\* submission ends either ready, with videoInfo and fileInfo set and no error,
\* or in error with a message.
C25_SubmitFinishesReadyOrError ==
    /\ [][\A i \in 1..MaxCalls :
            SubmitReturns(i) =>
                /\ ~hook'.isLoading
                /\ ~calls'[i].valid => ~calls'[i].sent
                /\ calls'[i].valid => EndsReady(hook') \/ EndsError(hook')]_vars
    /\ \A i \in 1..MaxCalls :
         (i \in DOMAIN calls /\ calls[i].op = "handleSubmit")
             ~> (i \in DOMAIN calls /\ calls[i].pc = "done")

\* C26: after any sequence of setUrl, handleSubmit, downloadVideo and
\* resetForm, downloadStatus is 'ready' only while videoInfo and fileInfo are
\* both non-null.
C26_ReadyOnlyWithInfo ==
    hook.downloadStatus = "ready" =>
        hook.videoInfo # "null" /\ hook.fileInfo # "null"

\* C27: the delayed 'complete' update of a downloadVideo call leaves
\* downloadStatus alone when resetForm or a later handleSubmit has meanwhile
\* set it to 'idle', 'processing', 'ready' or 'error'.
C27_StaleCompleteKeepsStatus ==
    [][\A i \in DOMAIN calls :
          /\ calls[i].op = "downloadVideo"
          /\ calls[i].pc = "timer"
          /\ calls'[i].pc = "done"
          /\ hook.downloadStatus \in {"idle", "processing", "ready", "error"}
          => hook'.downloadStatus = hook.downloadStatus]_vars

\* C28: when getVideoInfo of a request has ended and its downloadVideo reads
\* the process-wide videoDownloaderMethod, the backend is still the one this
\* request's own provider call reported and getVideoInfo used.
C28_BackendStableWithinRequest ==
    [][\A c \in Reqs :
          prov[c].pc = "info" /\ prov'[c].pc = "done"
              => BackendInUse = prov[c].reported]_vars

\* C29: when a request runs its yt-dlp backend after the provider returned
\* true, the command it runs is one that passed a version check of the
\* provider; after '<python> -m yt_dlp --version' this is the module, not the
\* bare 'yt-dlp'.
C29_RunsTheVerifiedCommand ==
    [][\A c \in Reqs :
          /\ prov[c].pc = "info" /\ prov'[c].pc = "done"
          /\ BackendInUse = "ytdlp"
          => CommandRun \in log.checked]_vars

\* C30: no two requests of the download route are given the same
\* metadata-file path or the same output filename, also when they read
\* Date.now() in the same millisecond and the titles are the same.
C30_NoSharedFilenames ==
    \A a \in Reqs : \A b \in Reqs \ {a} :
        (req[a].ts # 0 /\ req[b].ts # 0) =>
            /\ infoFilename(req[a].ts) # infoFilename(req[b].ts)
            /\ (req[a].title # <<>> /\ req[b].title # <<>>) =>
                  generateSafeFilename(req[a].title, req[a].ts)
                      # generateSafeFilename(req[b].title, req[b].ts)

====
